---------------------------- MODULE Spec2Model ----------------------------
(***************************************************************************)
(* The comment pipeline of the Feedback-Analysis system as a state machine. *)
(*                                                                         *)
(*   lambda1  pagination cycle: read the stored page token, fetch a page   *)
(*            of comments, store the next token, send the batch to SQS     *)
(*   lambda2  ingestion: write every comment of an SQS message as a row of *)
(*            RawCommentsTable, stamped processed_at = utcnow()            *)
(*   lambda3  enrichment: for every INSERT stream record, classify the     *)
(*            text and put the row back with sentiment and sentiment_score *)
(*   lambda4  aggregation: read the video's row of SentimentScoresTable,   *)
(*            query the rows with processed_at > last_updated_at, fold     *)
(*            them into overall_score / comment_count, put the row back    *)
(*                                                                         *)
(* Timestamps are integers (the ISO strings of the code compare in the     *)
(* same order).  Sentiment magnitudes are hundredths (90 is 0.90).  The     *)
(* Decimal arithmetic of calculate_overall_score is done on exact          *)
(* fractions <<numerator, denominator>>.                                   *)
(***************************************************************************)
EXTENDS Integers, Sequences, FiniteSets, TLC

(***************************************************************************)
(* Bounds of the model.                                                    *)
(***************************************************************************)
MaxClock == 2        \* utcnow() takes the values 1..MaxClock
MaxDeliveries == 2   \* deliveries of SQS messages to lambda2
MaxFoldCount == 5    \* comment_count reached by the folds of SpecFold
MaxNew == 2          \* rows in one batch of new comments in SpecFold

(***************************************************************************)
(* Program constants.                                                      *)
(***************************************************************************)
Epoch == 0           \* "1970-01-01T00:00:00.000000"
NoneTok == 0         \* Python None as a page token

Videos == {"v1"}
Runs == {1, 2}       \* concurrent invocations of lambda4
Cycles == {1, 2}     \* concurrent invocations of lambda1

(***************************************************************************)
(* Exact fractions.                                                        *)
(***************************************************************************)
Abs(x) == IF x < 0 THEN -x ELSE x

RECURSIVE Gcd(_, _)
Gcd(a, b) == IF b = 0 THEN a ELSE Gcd(b, a % b)

Frac(n, d) ==
    LET g == Gcd(Abs(n), Abs(d))
        s == IF d < 0 THEN -1 ELSE 1
    IN  IF g = 0 THEN <<0, 1>> ELSE <<s * (n \div g), s * (d \div g)>>

FInt(n) == <<n, 1>>
FAdd(x, y) == Frac(x[1] * y[2] + y[1] * x[2], x[2] * y[2])
FSub(x, y) == Frac(x[1] * y[2] - y[1] * x[2], x[2] * y[2])
FMul(x, y) == Frac(x[1] * y[1], x[2] * y[2])
FDiv(x, y) == Frac(x[1] * y[2], x[2] * y[1])
FLess(x, y) == x[1] * y[2] < y[1] * x[2]
FMax(x, y) == IF FLess(x, y) THEN y ELSE x
FMin(x, y) == IF FLess(y, x) THEN y ELSE x

\* Python's round() of a Decimal: to the nearest integer, ties to even.
Round(x) ==
    LET q == x[1] \div x[2]
        r == x[1] - q * x[2]
    IN  IF 2 * r < x[2] THEN q
        ELSE IF 2 * r > x[2] THEN q + 1
        ELSE IF q % 2 = 0 THEN q ELSE q + 1

(***************************************************************************)
(* lambda4: calculate_overall_score.  new_comments is a sequence of rows.  *)
(***************************************************************************)
\* comment.get("sentiment_score", {}).get(name, "0")
Magnitude(comment, name) ==
    IF "sentiment_score" \in DOMAIN comment THEN comment.sentiment_score[name] ELSE 0

positive_weight_factor == <<5, 4>>
delta == <<1, 5>>

Normalized(comment) ==
    LET positive == <<Magnitude(comment, "Positive"), 100>>
        negative == <<Magnitude(comment, "Negative"), 100>>
        weighted_positive == FMul(positive_weight_factor, positive)
        weighted_total == FAdd(weighted_positive, negative)
    IN  IF FLess(FInt(0), weighted_total)
        THEN FDiv(FSub(weighted_positive, negative), weighted_total)
        ELSE FInt(0)

RECURSIVE SumNormalized(_)
SumNormalized(new_comments) ==
    IF new_comments = <<>> THEN FInt(0)
    ELSE FAdd(Normalized(Head(new_comments)), SumNormalized(Tail(new_comments)))

NewAvgNoCap(new_avg) ==
    IF FLess(FInt(0), new_avg) THEN FAdd(new_avg, delta) ELSE new_avg

NewAvgAdjusted(new_avg) ==
    IF FLess(FInt(0), new_avg) THEN FMin(FAdd(new_avg, delta), FInt(1)) ELSE new_avg

\* the weighted average alone
OverallNormPlain(new_avg, combined, normalized_existing) == combined

\* lines 122-126
OverallNorm(new_avg, combined, normalized_existing) ==
    IF FLess(FInt(0), new_avg) THEN FMax(combined, normalized_existing) ELSE combined

\* lines 96-100
NewAvg(new_comments) ==
    IF Len(new_comments) > 0
    THEN FDiv(SumNormalized(new_comments), FInt(Len(new_comments)))
    ELSE FInt(0)

calculate_overall_score(existing_score, existing_count, new_comments) ==
    LET new_count == Len(new_comments)
        new_avg == NewAvg(new_comments)
        normalized_existing ==
            IF existing_count > 0
            THEN FSub(FDiv(FInt(existing_score), FInt(50)), FInt(1))
            ELSE FInt(0)
        new_avg_adjusted == NewAvgAdjusted(new_avg)
        total_count == existing_count + new_count
        combined ==
            IF total_count > 0
            THEN FDiv(FAdd(FMul(normalized_existing, FInt(existing_count)),
                           FMul(new_avg_adjusted, FInt(new_count))),
                      FInt(total_count))
            ELSE new_avg_adjusted
        overall_norm == OverallNorm(new_avg, combined, normalized_existing)
    IN  [overall_score |-> Round(FMul(FDiv(FAdd(overall_norm, FInt(1)), FInt(2)), FInt(100))),
         total_count |-> total_count]


(***************************************************************************)
(* The outside world: CommentSource and the sentiment classifier, a        *)
(* function of the text.  The pipeline is followed for v1, which has two   *)
(* pages of comments; v2, which has three, serves pagination alone and the *)
(* aggregation triggers that name two videos.                              *)
(***************************************************************************)
Comment(t, a, p) == [text |-> t, author |-> a, published_at |-> p]

LongVideos == {"v2"}

YouTubePages ==
    [v \in Videos \cup LongVideos |->
        IF v \in Videos
        THEN << <<Comment("great", "ann", "d1"), Comment("toolong", "bob", "d2")>>,
                <<Comment("awful", "cy", "d3")>> >>
        ELSE << <<Comment("great", "ann", "e1")>>,
                <<Comment("awful", "cy", "e2")>>,
                <<Comment("fine", "dee", "e3")>> >>]

Score(p, n) == [Positive |-> p, Negative |-> n]

\* comprehend.detect_sentiment: a result, or TextSizeLimitExceededException
Comprehend(text) ==
    CASE text = "great" -> [Sentiment |-> "POSITIVE", SentimentScore |-> Score(90, 5)]
      [] text = "awful" -> [Sentiment |-> "NEGATIVE", SentimentScore |-> Score(10, 80)]
      [] OTHER -> [Sentiment |-> "TextSizeLimitExceeded", SentimentScore |-> Score(0, 0)]

VARIABLES
    clock,          \* datetime.utcnow()
    state_table,    \* PaginationState: video_id -> next_page_token, rows may be absent
    cyc,            \* the invocations of lambda1
    queue,          \* the SQS queue: the set of messages in it
    l2,             \* the invocation of lambda2
    deliveries,     \* messages handed to lambda2 so far
    raw_comments,   \* RawCommentsTable: unique_comment_key -> row
    stream,         \* the INSERT records of RawCommentsTable's stream
    scores_table,   \* SentimentScoresTable: video_id -> row
    run,            \* the invocations of lambda4
    l3,             \* the invocation of lambda3 followed step by step
    ledger          \* history: per video, the rows folded into the stored aggregate:
                    \* per key how many times (2 stands for "more than once") and
                    \* whether the row carried a sentiment_score when first folded

vars == <<clock, state_table, cyc, queue, l2, deliveries, raw_comments, stream,
          scores_table, run, l3, ledger>>

\* f with key k set to row v (put_item: the whole row is replaced)
Put(f, k, v) == [x \in DOMAIN f \cup {k} |-> IF x = k THEN v ELSE f[x]]
EmptyTable == [x \in {} |-> 0]

RECURSIVE SeqOf(_)
SeqOf(S) == IF S = {} THEN <<>>
            ELSE LET x == CHOOSE y \in S : TRUE IN <<x>> \o SeqOf(S \ {x})

Max(S) == CHOOSE x \in S : \A y \in S : y <= x

(***************************************************************************)
(* lambda1: the pagination cycle.                                          *)
(***************************************************************************)
\* history: token_before is the token stored when the cycle began,
\* exhausted_before whether a row without a token was stored then, read_error
\* whether the cycle's get_item raised
IdleCycle == [pc |-> "idle", video_id |-> "", page_token |-> NoneTok,
              comments |-> <<>>, next_page_token |-> NoneTok, statusCode |-> 0,
              token_before |-> NoneTok, exhausted_before |-> FALSE,
              read_error |-> FALSE]

\* get_next_page_token_from_state; err: get_item raised ClientError
get_next_page_token_from_state(video_id, err) ==
    IF err THEN NoneTok
    ELSE IF video_id \in DOMAIN state_table THEN state_table[video_id] ELSE NoneTok

\* fetch_youtube_comments: the token of page i is i, no token is the first page
fetch_youtube_comments(video_id, page_token) ==
    LET pages == YouTubePages[video_id]
        i == IF page_token = NoneTok THEN 1 ELSE page_token
    IN  [comments |-> pages[i],
         nextPageToken |-> IF i < Len(pages) THEN i + 1 ELSE NoneTok]

\* lines 139-158: parse the event, take the page token of the event or the stored one
L1Read(c, video_id, provided_page_token, err) ==
    /\ cyc[c].pc = "idle"
    /\ cyc' = [cyc EXCEPT ![c] =
                 [IdleCycle EXCEPT !.pc = "fetch", !.video_id = video_id,
                    !.token_before = get_next_page_token_from_state(video_id, FALSE),
                    !.exhausted_before = /\ video_id \in DOMAIN state_table
                                         /\ state_table[video_id] = NoneTok,
                    !.read_error = (provided_page_token = NoneTok /\ err),
                    !.page_token = IF provided_page_token = NoneTok
                                   THEN get_next_page_token_from_state(video_id, err)
                                   ELSE provided_page_token]]
    /\ UNCHANGED <<l3, clock, state_table, queue, l2, deliveries, raw_comments, stream,
                   scores_table, run, ledger>>

\* line 163
L1Fetch(c) ==
    /\ cyc[c].pc = "fetch"
    /\ LET got == fetch_youtube_comments(cyc[c].video_id, cyc[c].page_token)
       IN  cyc' = [cyc EXCEPT ![c].pc = "update", ![c].comments = got.comments,
                              ![c].next_page_token = got.nextPageToken]
    /\ UNCHANGED <<l3, clock, state_table, queue, l2, deliveries, raw_comments, stream,
                   scores_table, run, ledger>>

\* line 163 raising (status code other than 200): caught at line 188
L1FetchError(c) ==
    /\ cyc[c].pc = "fetch"
    /\ cyc' = [cyc EXCEPT ![c].pc = "idle", ![c].statusCode = 500]
    /\ UNCHANGED <<l3, clock, state_table, queue, l2, deliveries, raw_comments, stream,
                   scores_table, run, ledger>>

update_next_page_token_in_state(video_id, next_page_token) ==
    Put(state_table, video_id, next_page_token)

\* line 166
L1Update(c) ==
    /\ cyc[c].pc = "update"
    /\ state_table' = update_next_page_token_in_state(cyc[c].video_id, cyc[c].next_page_token)
    /\ cyc' = [cyc EXCEPT ![c].pc = "send"]
    /\ UNCHANGED <<l3, clock, queue, l2, deliveries, raw_comments, stream, scores_table,
                   run, ledger>>

\* line 166 with put_item raising ClientError: printed, not raised (lines 128-129)
L1UpdateError(c) ==
    /\ cyc[c].pc = "update"
    /\ cyc' = [cyc EXCEPT ![c].pc = "send"]
    /\ UNCHANGED <<l3, clock, state_table, queue, l2, deliveries, raw_comments, stream,
                   scores_table, run, ledger>>

Message(cy) == [video_id |-> cy.video_id, comments |-> cy.comments,
                next_page_token |-> cy.next_page_token]

\* lines 169-186
L1Send(c) ==
    /\ cyc[c].pc = "send"
    /\ queue' = queue \cup {Message(cyc[c])}
    /\ cyc' = [cyc EXCEPT ![c].pc = "idle", ![c].statusCode = 200]
    /\ UNCHANGED <<l3, clock, state_table, l2, deliveries, raw_comments, stream,
                   scores_table, run, ledger>>

\* line 177 raising: caught at line 188, the handler answers 500
L1SendError(c) ==
    /\ cyc[c].pc = "send"
    /\ cyc' = [cyc EXCEPT ![c].pc = "idle", ![c].statusCode = 500]
    /\ UNCHANGED <<l3, clock, state_table, queue, l2, deliveries, raw_comments, stream,
                   scores_table, run, ledger>>

(***************************************************************************)
(* lambda2: ingestion of one SQS message (one record per event).           *)
(***************************************************************************)
IdleL2 == [pc |-> "idle", video_id |-> "", comments |-> <<>>, message |-> <<>>,
           success |-> TRUE]

\* sha256(f"{video_id}_{published_at}"): one key per pair
unique_comment_key(video_id, published_at) == <<video_id, published_at>>

PageKeys(v, i) ==
    {unique_comment_key(v, YouTubePages[v][i][j].published_at) :
        j \in 1..Len(YouTubePages[v][i])}

VideoPageKeys(v) == UNION {PageKeys(v, i) : i \in 1..Len(YouTubePages[v])}

AllKeys == UNION {VideoPageKeys(v) : v \in Videos \cup LongVideos}

NothingFolded == [k \in AllKeys |-> [n |-> 0, enriched |-> FALSE]]

\* lines 39-47: the row written for a comment
Item(video_id, comment, now) ==
    [video_id |-> video_id,
     unique_comment_key |-> unique_comment_key(video_id, comment.published_at),
     comment_text |-> comment.text,
     author |-> comment.author,
     published_at |-> comment.published_at,
     processed_at |-> now]

\* an element of the message's comments list that is no JSON object
NotAnObject == [malformed |-> TRUE]

\* comment.get works on the element
IsObject(comment) == "published_at" \in DOMAIN comment

\* SQS hands a message to lambda2; lines 19-30
L2Receive(m) ==
    /\ l2.pc = "idle"
    /\ m \in queue
    /\ deliveries < MaxDeliveries
    /\ deliveries' = deliveries + 1
    /\ l2' = [pc |-> IF m.comments = <<>> THEN "return" ELSE "put",
              video_id |-> m.video_id, comments |-> m.comments, message |-> m,
              success |-> TRUE]
    /\ UNCHANGED <<l3, clock, state_table, cyc, queue, raw_comments, stream, scores_table,
                   run, ledger>>

\* lines 33-50: one turn of the loop; the stream gets an INSERT record for a new key
L2Put ==
    /\ l2.pc = "put"
    /\ IsObject(Head(l2.comments))
    /\ LET item == Item(l2.video_id, Head(l2.comments), clock)
           k == item.unique_comment_key
       IN  /\ raw_comments' = Put(raw_comments, k, item)
           /\ stream' = IF k \in DOMAIN raw_comments THEN stream
                        ELSE stream \cup {[eventName |-> "INSERT", NewImage |-> item]}
    /\ l2' = [l2 EXCEPT !.comments = Tail(l2.comments),
                        !.pc = IF Tail(l2.comments) = <<>> THEN "return" ELSE "put"]
    /\ UNCHANGED <<l3, clock, state_table, cyc, queue, deliveries, scores_table, run, ledger>>

\* line 50 raising: lines 54-56, process_message returns False
L2PutError ==
    /\ l2.pc = "put"
    /\ l2' = [l2 EXCEPT !.pc = "return", !.success = FALSE]
    /\ UNCHANGED <<l3, clock, state_table, cyc, queue, deliveries, raw_comments, stream,
                   scores_table, run, ledger>>

\* line 36 raising AttributeError on an element that is no object: lines 54-56,
\* process_message returns False and the elements after it are not looked at
L2BadTuple ==
    /\ l2.pc = "put"
    /\ ~IsObject(Head(l2.comments))
    /\ l2' = [l2 EXCEPT !.pc = "return", !.success = FALSE]
    /\ UNCHANGED <<l3, clock, state_table, cyc, queue, deliveries, raw_comments, stream,
                   scores_table, run, ledger>>

\* lines 69-76: the handler answers 200 whatever process_message returned, and SQS
\* deletes the message; a standard queue may still deliver it again
L2Return(again) ==
    /\ l2.pc = "return"
    /\ queue' = IF again THEN queue ELSE queue \ {l2.message}
    /\ l2' = [IdleL2 EXCEPT !.success = l2.success]
    /\ UNCHANGED <<l3, clock, state_table, cyc, deliveries, raw_comments, stream,
                   scores_table, run, ledger>>

\* time passes
Tick ==
    /\ clock < MaxClock
    /\ clock' = clock + 1
    /\ UNCHANGED <<l3, state_table, cyc, queue, l2, deliveries, raw_comments, stream,
                   scores_table, run, ledger>>

(***************************************************************************)
(* lambda3: enrichment of a batch of stream records.                       *)
(***************************************************************************)
MaxBatch == 2

\* analyze_sentiment; err: detect_sentiment raised ClientError
analyze_sentiment(text, err) ==
    LET response == Comprehend(text)
    IN  IF err \/ response.Sentiment = "TextSizeLimitExceeded"
        THEN [ok |-> FALSE, sentiment |-> "", sentiment_score |-> Score(0, 0)]
        ELSE [ok |-> TRUE, sentiment |-> response.Sentiment,
              sentiment_score |-> response.SentimentScore]

\* process_record, lines 88-102: the record's image with the sentiment added
updated_comment(new_image, res) ==
    [f \in DOMAIN new_image \cup {"sentiment", "sentiment_score"} |->
        IF f = "sentiment" THEN res.sentiment
        ELSE IF f = "sentiment_score" THEN res.sentiment_score
        ELSE new_image[f]]

RECURSIVE PutAll(_, _)
PutAll(table, rows) ==
    IF rows = {} THEN table
    ELSE LET row == CHOOSE x \in rows : TRUE
         IN  PutAll(Put(table, row.unique_comment_key, row), rows \ {row})

\* lambda_handler; errs: the records whose classification raised ClientError;
\* written: update_comments_batch did not raise
L3Handler(records, errs, written) ==
    /\ records # {}
    /\ LET processed_comments ==
               {updated_comment(r.NewImage, analyze_sentiment(r.NewImage.comment_text, r \in errs)) :
                   r \in {x \in records : x.eventName = "INSERT"
                            /\ analyze_sentiment(x.NewImage.comment_text, x \in errs).ok}}
       IN  raw_comments' = IF written THEN PutAll(raw_comments, processed_comments)
                           ELSE raw_comments
    /\ UNCHANGED <<l3, clock, state_table, cyc, queue, l2, deliveries, stream, scores_table,
                   run, ledger>>

(***************************************************************************)
(* lambda3 step by step: one call of detect_sentiment at a time.           *)
(***************************************************************************)
\* event: the records of the invocation; records: those not yet processed;
\* failed and write_failed are history: the records process_record returned None
\* for, and whether update_comments_batch raised
IdleL3 == [pc |-> "idle", event |-> {}, records |-> <<>>, processed_comments |-> {},
           failed |-> {}, write_failed |-> FALSE]

\* lines 114-121: the stream hands a batch of records to lambda3
L3Receive(records) ==
    /\ l3.pc = "idle"
    /\ records # {}
    /\ l3' = [IdleL3 EXCEPT !.pc = "detect", !.event = records, !.records = SeqOf(records)]
    /\ UNCHANGED <<clock, state_table, cyc, queue, l2, deliveries, raw_comments, stream,
                   scores_table, run, ledger>>

\* as L3Detect, but a record that fails ends the loop and drops what was classified
L3DetectAborting(err) ==
    /\ l3.pc = "detect"
    /\ LET record == Head(l3.records)
           res == analyze_sentiment(record.NewImage.comment_text, err)
       IN  l3' = IF res.ok
                 THEN [l3 EXCEPT
                         !.records = Tail(l3.records),
                         !.processed_comments = @ \cup {updated_comment(record.NewImage, res)},
                         !.pc = IF Tail(l3.records) = <<>> THEN "write" ELSE "detect"]
                 ELSE [l3 EXCEPT !.records = <<>>, !.processed_comments = {},
                                 !.failed = @ \cup {record}, !.pc = "write"]
    /\ UNCHANGED <<clock, state_table, cyc, queue, l2, deliveries, raw_comments, stream,
                   scores_table, run, ledger>>

\* process_record on the first record left, its call of detect_sentiment answering
\* or raising ClientError: lines 22-28, 29-30, 35-37 and 83-108, then lines 122-124
L3Detect(err) ==
    /\ l3.pc = "detect"
    /\ LET record == Head(l3.records)
           res == analyze_sentiment(record.NewImage.comment_text, err)
       IN  l3' = [l3 EXCEPT
                    !.records = Tail(l3.records),
                    !.processed_comments =
                        IF res.ok THEN @ \cup {updated_comment(record.NewImage, res)} ELSE @,
                    !.failed = IF res.ok THEN @ ELSE @ \cup {record},
                    !.pc = IF Tail(l3.records) = <<>> THEN "write" ELSE "detect"]
    /\ UNCHANGED <<clock, state_table, cyc, queue, l2, deliveries, raw_comments, stream,
                   scores_table, run, ledger>>

\* detect_sentiment raising ThrottlingException: lines 31-32
L3Throttled ==
    /\ l3.pc = "detect"
    /\ l3' = [l3 EXCEPT !.pc = "sleep"]
    /\ UNCHANGED <<clock, state_table, cyc, queue, l2, deliveries, raw_comments, stream,
                   scores_table, run, ledger>>

\* lines 33-34: sleep(1), then analyze_sentiment calls itself on the same text;
\* the code keeps no count of these calls
L3Retry ==
    /\ l3.pc = "sleep"
    /\ l3' = [l3 EXCEPT !.pc = "detect"]
    /\ UNCHANGED <<clock, state_table, cyc, queue, l2, deliveries, raw_comments, stream,
                   scores_table, run, ledger>>

\* lines 126-135; written: update_comments_batch did not raise
L3Write(written) ==
    /\ l3.pc = "write"
    /\ raw_comments' = IF l3.processed_comments # {} /\ written
                        THEN PutAll(raw_comments, l3.processed_comments)
                        ELSE raw_comments
    /\ l3' = [l3 EXCEPT !.pc = "idle",
                        !.write_failed = (l3.processed_comments # {} /\ ~written)]
    /\ UNCHANGED <<clock, state_table, cyc, queue, l2, deliveries, stream, scores_table,
                   run, ledger>>

(***************************************************************************)
(* lambda4: aggregation.                                                   *)
(***************************************************************************)
\* Python None as a video_id
NoVideo == ""

\* the event of a direct invocation
Direct(video_id) == [video_id |-> video_id]

\* folded, read_error and event are history: the rows folded into the aggregate
\* the run read, whether its get_item raised, and the event it was invoked with
IdleRun == [pc |-> "idle", video_id |-> NoVideo, existing_score |-> 0, existing_count |-> 0,
            last_updated_at |-> Epoch, new_comments |-> {}, folded |-> NothingFolded,
            read_error |-> FALSE, event |-> Direct(NoVideo)]

\* extract_video_id_from_event: the video_id of the first INSERT or MODIFY record
\* of a stream event, or the video_id of a direct invocation
RECURSIVE FirstVideoId(_)
FirstVideoId(records) ==
    IF records = <<>> THEN NoVideo
    ELSE IF Head(records).eventName \in {"INSERT", "MODIFY"}
         THEN Head(records).NewImage.video_id
         ELSE FirstVideoId(Tail(records))

extract_video_id_from_event(event) ==
    IF "Records" \in DOMAIN event THEN FirstVideoId(event.Records)
    ELSE IF "video_id" \in DOMAIN event THEN event.video_id
    ELSE NoVideo

\* fetch_video_metadata and lines 172-180; err: get_item raised ClientError
Metadata(video_id, err) ==
    IF ~err /\ video_id \in DOMAIN scores_table
    THEN [existing_score |-> scores_table[video_id].overall_score,
          existing_count |-> scores_table[video_id].comment_count,
          last_updated_at |-> scores_table[video_id].last_updated_at]
    ELSE [existing_score |-> 0, existing_count |-> 0, last_updated_at |-> Epoch]

\* fetch_sentiment_scores: the rows of the video with processed_at > last_updated_at
fetch_sentiment_scores(video_id, last_updated_at) ==
    {raw_comments[k] : k \in {x \in DOMAIN raw_comments :
        /\ raw_comments[x].video_id = video_id
        /\ raw_comments[x].processed_at > last_updated_at}}

\* lines 192-198: the row the run writes
NewMetadata(r) ==
    LET res == calculate_overall_score(r.existing_score, r.existing_count,
                                       SeqOf(r.new_comments))
    IN  [overall_score |-> res.overall_score,
         comment_count |-> res.total_count,
         last_updated_at |-> Max({c.processed_at : c \in r.new_comments})]

\* lines 157-180: the invocation on an event; without a video_id the handler
\* answers 400 and nothing has changed
L4Invoke(r, event, err) ==
    /\ run[r].pc = "idle"
    /\ LET video_id == extract_video_id_from_event(event)
           m == Metadata(video_id, err)
       IN  /\ video_id # NoVideo
           /\ run' = [run EXCEPT ![r] =
                [pc |-> "fetch", video_id |-> video_id,
                 existing_score |-> m.existing_score,
                 existing_count |-> m.existing_count,
                 last_updated_at |-> m.last_updated_at, new_comments |-> {},
                 folded |-> IF ~err /\ video_id \in DOMAIN scores_table
                            THEN ledger[video_id] ELSE NothingFolded,
                 read_error |-> err, event |-> event]]
    /\ UNCHANGED <<l3, clock, state_table, cyc, queue, l2, deliveries, raw_comments, stream,
                   scores_table, ledger>>

\* lines 160-180 for a trigger that names the one video
L4Read(r, video_id, err) == L4Invoke(r, Direct(video_id), err)

\* lines 182-189; err: the query raised ClientError and fetch_sentiment_scores
\* returned []
L4Query(r, err) ==
    /\ run[r].pc = "fetch"
    /\ LET new_comments == IF err THEN {}
                           ELSE fetch_sentiment_scores(run[r].video_id, run[r].last_updated_at)
       IN  run' = [run EXCEPT ![r] =
                     IF new_comments = {} THEN IdleRun
                     ELSE [run[r] EXCEPT !.pc = "update", !.new_comments = new_comments]]
    /\ UNCHANGED <<l3, clock, state_table, cyc, queue, l2, deliveries, raw_comments, stream,
                   scores_table, ledger>>

Folded(led, rows) ==
    [k \in DOMAIN led |->
        IF \E c \in rows : c.unique_comment_key = k
        THEN [n |-> IF led[k].n < 2 THEN led[k].n + 1 ELSE 2,
              enriched |-> IF led[k].n = 0
                           THEN \E c \in rows : c.unique_comment_key = k
                                                /\ "sentiment_score" \in DOMAIN c
                           ELSE led[k].enriched]
        ELSE led[k]]

\* update_video_metadata
update_video_metadata(r) == Put(scores_table, r.video_id, NewMetadata(r))

\* lines 192-198
L4Update(r) ==
    /\ run[r].pc = "update"
    /\ scores_table' = update_video_metadata(run[r])
    /\ ledger' = [ledger EXCEPT ![run[r].video_id] =
                                   Folded(run[r].folded, run[r].new_comments)]
    /\ run' = [run EXCEPT ![r] = IdleRun]
    /\ UNCHANGED <<l3, clock, state_table, cyc, queue, l2, deliveries, raw_comments, stream>>

\* line 198 with put_item raising ClientError: printed, not raised (lines 60-61)
L4UpdateError(r) ==
    /\ run[r].pc = "update"
    /\ run' = [run EXCEPT ![r] = IdleRun]
    /\ UNCHANGED <<l3, clock, state_table, cyc, queue, l2, deliveries, raw_comments, stream,
                   scores_table, ledger>>

(***************************************************************************)
(* lambda4 run from start to end on a batch of new rows, as it runs when   *)
(* no other invocation touches the tables meanwhile.  The batch is what    *)
(* fetch_sentiment_scores returned: rows stamped after last_updated_at,    *)
(* each with or without a sentiment_score.  run[1] keeps the locals of the *)
(* invocation as it returned.                                              *)
(***************************************************************************)
FoldOptions ==
    {[has |-> TRUE, score |-> Score(90, 5)], [has |-> TRUE, score |-> Score(10, 80)],
     [has |-> TRUE, score |-> Score(50, 50)], [has |-> TRUE, score |-> Score(100, 0)],
     [has |-> TRUE, score |-> Score(0, 100)], [has |-> FALSE, score |-> Score(0, 0)]}

FoldBatches == UNION {[1..n -> FoldOptions] : n \in 1..MaxNew}

Names == <<"n1", "n2", "n3", "n4", "n5", "n6">>

FoldRow(video_id, i, opt, now) ==
    LET base == [video_id |-> video_id,
                 unique_comment_key |-> unique_comment_key(video_id, Names[i]),
                 processed_at |-> now]
    IN  IF opt.has
        THEN [f \in DOMAIN base \cup {"sentiment_score"} |->
                 IF f = "sentiment_score" THEN opt.score ELSE base[f]]
        ELSE base

L4Sequential(video_id, batch) ==
    LET m == Metadata(video_id, FALSE)
        r == [pc |-> "update", video_id |-> video_id,
              existing_score |-> m.existing_score,
              existing_count |-> m.existing_count,
              last_updated_at |-> m.last_updated_at,
              new_comments |-> {FoldRow(video_id, i, batch[i], m.last_updated_at + 1) :
                                   i \in 1..Len(batch)},
              folded |-> ledger[video_id],
              read_error |-> FALSE, event |-> Direct(video_id)]
    IN  /\ m.existing_count + Len(batch) <= MaxFoldCount
        /\ scores_table' = update_video_metadata(r)
        /\ ledger' = [ledger EXCEPT ![video_id] = Folded(r.folded, r.new_comments)]
        /\ run' = [run EXCEPT ![1] = [r EXCEPT !.pc = "idle"]]
        /\ UNCHANGED <<l3, clock, state_table, cyc, queue, l2, deliveries, raw_comments,
                       stream>>

(***************************************************************************)
(* Specifications.                                                         *)
(***************************************************************************)
Init ==
    /\ clock = 1
    /\ state_table = EmptyTable
    /\ cyc = [c \in Cycles |-> IdleCycle]
    /\ queue = {}
    /\ l2 = IdleL2
    /\ deliveries = 0
    /\ raw_comments = EmptyTable
    /\ stream = {}
    /\ scores_table = EmptyTable
    /\ run = [r \in Runs |-> IdleRun]
    /\ l3 = IdleL3
    /\ ledger = [v \in Videos |-> NothingFolded]

\* pagination and ingestion: overlapping cycles, every call may fail
NextPag ==
    \/ \E c \in Cycles, v \in Videos, err \in BOOLEAN : L1Read(c, v, NoneTok, err)
    \/ \E c \in Cycles : L1Fetch(c)
    \/ \E c \in Cycles : L1FetchError(c)
    \/ \E c \in Cycles : L1Update(c)
    \/ \E c \in Cycles : L1UpdateError(c)
    \/ \E c \in Cycles : L1Send(c)
    \/ \E c \in Cycles : L1SendError(c)
    \/ \E m \in queue : L2Receive(m)
    \/ L2Put
    \/ L2PutError
    \/ \E again \in BOOLEAN : L2Return(again)

SpecPag == Init /\ [][NextPag]_vars

\* pagination alone, over the three pages of v2: overlapping cycles, every call
\* may fail
NextTok ==
    \/ \E c \in Cycles, v \in LongVideos, err \in BOOLEAN : L1Read(c, v, NoneTok, err)
    \/ \E c \in Cycles : L1Fetch(c)
    \/ \E c \in Cycles : L1FetchError(c)
    \/ \E c \in Cycles : L1Update(c)
    \/ \E c \in Cycles : L1UpdateError(c)
    \/ \E c \in Cycles : L1Send(c)
    \/ \E c \in Cycles : L1SendError(c)

SpecTok == Init /\ [][NextTok]_vars

\* the state after the first pagination cycle of the video: the first page is
\* in the queue and the token of the second page is stored
FirstCycleDone ==
    /\ clock = 1
    /\ state_table = [v \in Videos |-> 2]
    /\ cyc = [c \in Cycles |->
                IF c = 1
                THEN [pc |-> "idle", video_id |-> "v1", page_token |-> NoneTok,
                      comments |-> YouTubePages["v1"][1], next_page_token |-> 2,
                      statusCode |-> 200, token_before |-> NoneTok,
                      exhausted_before |-> FALSE, read_error |-> FALSE]
                ELSE IdleCycle]
    /\ queue = {[video_id |-> "v1", comments |-> YouTubePages["v1"][1],
                 next_page_token |-> 2]}
    /\ l2 = IdleL2
    /\ deliveries = 0
    /\ raw_comments = EmptyTable
    /\ stream = {}
    /\ scores_table = EmptyTable
    /\ run = [r \in Runs |-> IdleRun]
    /\ l3 = IdleL3
    /\ ledger = [v \in Videos |-> NothingFolded]

Batches == {b \in SUBSET stream : b # {} /\ Cardinality(b) <= MaxBatch}

\* ingestion, enrichment and one aggregation run at a time; reads may fail
NextSeq ==
    \/ \E m \in queue : L2Receive(m)
    \/ L2Put
    \/ \E again \in BOOLEAN : L2Return(again)
    \/ Tick
    \/ \E b \in Batches : \E errs \in SUBSET b, written \in BOOLEAN :
          L3Handler(b, errs, written)
    \/ \E v \in Videos, err \in BOOLEAN : L4Read(1, v, err)
    \/ \E err \in BOOLEAN : L4Query(1, err)
    \/ L4Update(1)
    \/ L4UpdateError(1)

SpecSeq == FirstCycleDone /\ [][NextSeq]_vars

\* ingestion, enrichment and concurrent aggregation runs; no call fails
NextAgg ==
    \/ \E m \in queue : L2Receive(m)
    \/ L2Put
    \/ \E again \in BOOLEAN : L2Return(again)
    \/ Tick
    \/ \E b \in Batches : L3Handler(b, {}, TRUE)
    \/ \E r \in Runs, v \in Videos : L4Read(r, v, FALSE)
    \/ \E r \in Runs : L4Query(r, FALSE)
    \/ \E r \in Runs : L4Update(r)

SpecAgg == FirstCycleDone /\ [][NextAgg]_vars

\* ingestion of a message any producer put into the queue: MaxTuples elements, each
\* a comment of the first page or no object at all; the table answers every put
MaxTuples == 3

IngMessages ==
    {[video_id |-> v, comments |-> comments, next_page_token |-> NoneTok] :
        v \in Videos,
        comments \in [1..MaxTuples ->
                        {YouTubePages["v1"][1][1], YouTubePages["v1"][1][2], NotAnObject}]}

IngInit ==
    /\ clock = 1
    /\ state_table = EmptyTable
    /\ cyc = [c \in Cycles |-> IdleCycle]
    /\ \E m \in IngMessages : queue = {m}
    /\ l2 = IdleL2
    /\ deliveries = 0
    /\ raw_comments = EmptyTable
    /\ stream = {}
    /\ scores_table = EmptyTable
    /\ run = [r \in Runs |-> IdleRun]
    /\ l3 = IdleL3
    /\ ledger = [v \in Videos |-> NothingFolded]

NextIng ==
    \/ \E m \in queue : L2Receive(m)
    \/ L2Put
    \/ L2BadTuple
    \/ \E again \in BOOLEAN : L2Return(again)
    \/ Tick

SpecIng == IngInit /\ [][NextIng]_vars

\* ingestion and enrichment step by step; every call of the classifier and the
\* write may fail
L3Step ==
    \/ \E b \in Batches : L3Receive(b)
    \/ \E err \in BOOLEAN : L3Detect(err)
    \/ L3Throttled
    \/ L3Retry
    \/ \E written \in BOOLEAN : L3Write(written)

NextEnr ==
    \/ \E m \in queue : L2Receive(m)
    \/ L2Put
    \/ \E again \in BOOLEAN : L2Return(again)
    \/ Tick
    \/ L3Step

\* an invocation of lambda3 that can take a step takes one
SpecEnr == FirstCycleDone /\ [][NextEnr]_vars /\ WF_vars(L3Step)

\* the whole pipeline with two pagination cycles of the video that may overlap,
\* each invoked once; no call fails, SQS delivers every message once and one
\* aggregation run is under way at a time
NextOvl ==
    \/ \E c \in Cycles, v \in Videos :
          cyc[c].statusCode = 0 /\ L1Read(c, v, NoneTok, FALSE)
    \/ \E c \in Cycles : L1Fetch(c)
    \/ \E c \in Cycles : L1Update(c)
    \/ \E c \in Cycles : L1Send(c)
    \/ \E m \in queue : L2Receive(m)
    \/ L2Put
    \/ L2Return(FALSE)
    \/ Tick
    \/ \E b \in Batches : L3Handler(b, {}, TRUE)
    \/ \E v \in Videos : L4Read(1, v, FALSE)
    \/ L4Query(1, FALSE)
    \/ L4Update(1)

SpecOvl == Init /\ [][NextOvl]_vars

\* ingestion, enrichment and aggregation of the first page when no call fails and
\* SQS delivers the message once
L2Step ==
    \/ \E m \in queue : L2Receive(m)
    \/ L2Put
    \/ L2Return(FALSE)

L3Enrich == \E b \in Batches : L3Handler(b, {}, TRUE)

L4Start ==
    \/ \E v \in Videos : L4Read(1, v, FALSE)
    \/ L4Query(1, FALSE)

L4Step ==
    \/ L4Start
    \/ L4Update(1)

NextLive ==
    \/ L2Step
    \/ Tick
    \/ L3Enrich
    \/ L4Step

\* every message in the queue is delivered and every handler that was invoked
\* runs on; the stream keeps triggering lambda3 and lambda4.  The last conjunct
\* is weak fairness of L4Update(1), which is enabled exactly when run[1] is at
\* its write-back and then leaves it.
SpecLive ==
    /\ FirstCycleDone
    /\ [][NextLive]_vars
    /\ WF_vars(L2Step)
    /\ WF_vars(L3Enrich)
    /\ WF_vars(L4Start)
    /\ []<>(run[1].pc # "update")

\* aggregation triggered by stream events of several records, after the first
\* page of v1 and of v2 has been ingested; no call fails
MaxRecords == 2

TrigVideos == Videos \cup LongVideos

TrigRows == UNION {{Item(v, YouTubePages[v][1][j], 1) : j \in 1..Len(YouTubePages[v][1])} :
                      v \in TrigVideos}

RECURSIVE Distinct(_)
Distinct(seq) ==
    \/ seq = <<>>
    \/ /\ \A i \in 2..Len(seq) : seq[i] # Head(seq)
       /\ Distinct(Tail(seq))

\* the events the stream can hand to lambda4: up to MaxRecords records
TrigEvents ==
    {[Records |-> records] :
        records \in {x \in UNION {[1..n -> stream] : n \in 1..MaxRecords} : Distinct(x)}}

TrigInit ==
    /\ clock = 1
    /\ state_table = [v \in TrigVideos |-> 2]
    /\ cyc = [c \in Cycles |-> IdleCycle]
    /\ queue = {}
    /\ l2 = IdleL2
    /\ deliveries = 0
    /\ raw_comments = PutAll(EmptyTable, TrigRows)
    /\ stream = {[eventName |-> "INSERT", NewImage |-> row] : row \in TrigRows}
    /\ scores_table = EmptyTable
    /\ run = [r \in Runs |-> IdleRun]
    /\ l3 = IdleL3
    /\ ledger = [v \in TrigVideos |-> NothingFolded]

NextTrig ==
    \/ \E event \in TrigEvents : L4Invoke(1, event, FALSE)
    \/ L4Query(1, FALSE)
    \/ L4Update(1)
    \/ L3Enrich

SpecTrig == TrigInit /\ [][NextTrig]_vars

\* any sequence of folds
NextFold == \E v \in Videos, batch \in FoldBatches : L4Sequential(v, batch)

SpecFold == Init /\ [][NextFold]_vars

(***************************************************************************)
(* Properties.                                                             *)
(***************************************************************************)
StoredToken(v) == get_next_page_token_from_state(v, FALSE)
StoredMetadata(v) == Metadata(v, FALSE)
VideoKeys(v) == {k \in DOMAIN raw_comments : raw_comments[k].video_id = v}
ReadOf(r) == [existing_score |-> r.existing_score, existing_count |-> r.existing_count,
              last_updated_at |-> r.last_updated_at]
\* the step is the write-back of run r
WriteBack(r) ==
    /\ run[r].pc = "update"
    /\ run'[r].pc = "idle"
    /\ <<scores_table, ledger>>' # <<scores_table, ledger>>

\* C1: when the only pagination cycle that ever ran for a video fails to send its
\* batch to the queue, the stored token is what it was when the cycle began.
C1_CheckpointSafety ==
    [][\A c \in Cycles :
          (/\ cyc[c].pc = "send"
           /\ cyc'[c].pc = "idle"
           /\ cyc'[c].statusCode = 500
           /\ \A d \in Cycles \ {c} : cyc[d].pc = "idle" /\ cyc[d].statusCode = 0)
          => StoredToken(cyc[c].video_id)' = cyc[c].token_before]_vars

\* nothing of pagination or ingestion is under way
AtRest == /\ \A c \in Cycles : cyc[c].pc = "idle"
          /\ queue = {}
          /\ l2.pc = "idle"

\* C2: every comment of every page before the stored token is a row of
\* RawCommentsTable, at the latest when no cycle runs and no batch is on its way.
C2_NoPageSkipped ==
    AtRest => \A v \in Videos : \A i \in 1..(StoredToken(v) - 1) :
                  PageKeys(v, i) \subseteq DOMAIN raw_comments

\* C3: no update is lost: the write-back of a run never overwrites the result of
\* another run, that is, every row folded into the stored aggregate is still
\* folded into the aggregate the write leaves.
C3_ConcurrencyCorrectness ==
    [][\A r \in Runs :
          WriteBack(r) =>
              \A k \in AllKeys :
                  ledger'[run[r].video_id][k].n >= ledger[run[r].video_id][k].n]_vars

\* C4: no row is folded into the stored aggregate more than once.
C4_NoItemFoldedTwice == \A v \in Videos, k \in AllKeys : ledger[v][k].n <= 1

\* C5: a put of lambda2 leaves every row that already exists as it was.
C5_IngestionIdempotent ==
    [][(l2.pc = "put" /\ l2' # l2)
          => \A k \in DOMAIN raw_comments : raw_comments'[k] = raw_comments[k]]_vars

\* the batch ran through ingestion, enrichment and aggregation: every row of the
\* video has been folded, with its sentiment unless the classifier refuses its text
BatchFolded(v) ==
    /\ PageKeys(v, 1) \subseteq DOMAIN raw_comments
    /\ \A k \in VideoKeys(v) :
          /\ ledger[v][k].n >= 1
          /\ ledger[v][k].enriched \/ ~analyze_sentiment(raw_comments[k].comment_text, FALSE).ok

\* C6: once the batch is folded, a run that read the stored aggregate leaves it
\* as it is, also after the batch was ingested again.
C6_DuplicateBatchNoOp ==
    [][\A v \in Videos :
          (/\ BatchFolded(v)
           /\ WriteBack(1) /\ run[1].video_id = v
           /\ StoredMetadata(v) = ReadOf(run[1]))
          => scores_table' = scores_table]_vars

\* C7: a run changes the stored aggregate only by folding rows whose processed_at
\* is strictly above the stored last_updated_at; when the video has no such row
\* (a row stamped exactly last_updated_at included) the trigger changes nothing.
C7_NoDoubleCounting ==
    [][WriteBack(1) =>
          \A c \in run[1].new_comments :
              c.processed_at > StoredMetadata(run[1].video_id).last_updated_at]_vars

\* C8: every stored aggregate has 0 <= overall_score <= 100 and comment_count >= 0.
C8_ScoreBounds ==
    \A v \in DOMAIN scores_table :
        /\ scores_table[v].overall_score >= 0
        /\ scores_table[v].overall_score <= 100
        /\ scores_table[v].comment_count >= 0

\* several folds have brought the score to the upper end of the range
C8_Witness ==
    \E v \in DOMAIN scores_table :
        scores_table[v].overall_score = 100 /\ scores_table[v].comment_count >= 3

\* C9: the stored comment_count of a video never decreases.
C9_CountNeverDecreases ==
    [][\A v \in DOMAIN scores_table :
          scores_table'[v].comment_count >= scores_table[v].comment_count]_vars

\* C10: every row a run folds into the aggregate carries a sentiment_score.
C10_UnenrichedExcluded ==
    [][WriteBack(1) => \A c \in run[1].new_comments : "sentiment_score" \in DOMAIN c]_vars

\* the rule the fold is to follow: norm = (P - N) / (P + N), a neutral prior of
\* weight 10
CanonicalNorm(comment) ==
    LET positive == Magnitude(comment, "Positive")
        negative == Magnitude(comment, "Negative")
    IN  IF positive + negative > 0
        THEN Frac(positive - negative, positive + negative)
        ELSE FInt(0)

RECURSIVE SumCanonicalNorm(_)
SumCanonicalNorm(new_comments) ==
    IF new_comments = <<>> THEN FInt(0)
    ELSE FAdd(CanonicalNorm(Head(new_comments)), SumCanonicalNorm(Tail(new_comments)))

CanonicalScore(existing_score, existing_count, new_comments) ==
    LET new_count == Len(new_comments)
        new_avg == FDiv(SumCanonicalNorm(new_comments), FInt(new_count))
        existing_norm == IF existing_count > 0
                         THEN FSub(FDiv(FInt(existing_score), FInt(50)), FInt(1))
                         ELSE FInt(0)
        combined_norm == FDiv(FAdd(FMul(existing_norm, FInt(existing_count)),
                                   FMul(new_avg, FInt(new_count))),
                              FInt(existing_count + new_count + 10))
    IN  Round(FMul(FDiv(FAdd(combined_norm, FInt(1)), FInt(2)), FInt(100)))

\* the invocation of run r has returned after folding rows that all carry a
\* sentiment_score
FoldedEnriched(r) ==
    /\ run[r].pc = "idle"
    /\ run[r].new_comments # {}
    /\ \A c \in run[r].new_comments : "sentiment_score" \in DOMAIN c

\* C11: the aggregate a fold of enriched rows writes is the canonical one:
\* overall_score = round(((existingNorm * count + newAvg * newCount)
\* / (count + newCount + 10) + 1) / 2 * 100) and comment_count = count + newCount.
C11_CanonicalUpdateRule ==
    FoldedEnriched(1) =>
        LET m == scores_table[run[1].video_id]
        IN  /\ m.overall_score = CanonicalScore(run[1].existing_score, run[1].existing_count,
                                                SeqOf(run[1].new_comments))
            /\ m.comment_count = run[1].existing_count + Cardinality(run[1].new_comments)

\* CommentSource returned no nextPageToken for the video and the cycle stored that
Exhausted(v) == v \in DOMAIN state_table /\ state_table[v] = NoneTok

\* C12: a cycle that begins when the stored state of its video is Exhausted makes
\* no request to CommentSource.
C12_ExhaustedIsTerminal ==
    [][\A c \in Cycles :
          (cyc[c].pc = "fetch" /\ cyc'[c].pc # "fetch") => ~cyc[c].exhausted_before]_vars

\* C13: an invocation of lambda3 whose call of the classifier was throttled ends:
\* it does not retry for ever.
C13_EnrichmentRetryBounded == (l3.pc = "sleep") ~> (l3.pc = "idle")

\* the invocation of lambda3 returns with this step
L3Returns == l3.pc = "write" /\ l3'.pc = "idle"

RecordKey(record) == record.NewImage.unique_comment_key

\* C14: when an invocation of lambda3 returns and its write did not fail, every
\* record it classified has its sentiment in RawCommentsTable, whatever happened
\* to the other records of the batch, and the rows of the records that failed are
\* as they were.
C14_SiblingIndependence ==
    [][L3Returns /\ ~l3'.write_failed =>
          /\ \A record \in l3.event \ l3.failed :
                LET res == analyze_sentiment(record.NewImage.comment_text, FALSE)
                    row == raw_comments'[RecordKey(record)]
                IN  /\ "sentiment" \in DOMAIN row
                    /\ row.sentiment = res.sentiment
                    /\ row.sentiment_score = res.sentiment_score
          /\ \A record \in l3.failed :
                \/ raw_comments'[RecordKey(record)] = raw_comments[RecordKey(record)]
                \/ \E other \in l3.event \ l3.failed : RecordKey(other) = RecordKey(record)]_vars

\* an invocation returned, one record of its batch enriched, another one failed
C14_Witness ==
    /\ l3.pc = "idle"
    /\ ~l3.write_failed
    /\ l3.failed # {}
    /\ \E record \in l3.event \ l3.failed :
          "sentiment" \in DOMAIN raw_comments[RecordKey(record)]
    /\ \E record \in l3.failed :
          "sentiment" \notin DOMAIN raw_comments[RecordKey(record)]

\* C15: when process_message has returned from a message with one element that is
\* no object, every element of the message that is an object is a row of
\* RawCommentsTable, whether it stands before or after that one.
C15_BadTupleSkipped ==
    (/\ l2.pc = "return"
     /\ Cardinality({i \in 1..Len(l2.message.comments) :
                        ~IsObject(l2.message.comments[i])}) = 1) =>
        \A i \in 1..Len(l2.message.comments) :
            LET comment == l2.message.comments[i]
            IN  IsObject(comment) =>
                    unique_comment_key(l2.video_id, comment.published_at)
                        \in DOMAIN raw_comments

\* C16: a row of RawCommentsTable that carries a sentiment is still there after
\* every step, with the same sentiment and sentiment_score.
C16_SentimentKept ==
    [][\A k \in DOMAIN raw_comments :
          "sentiment" \in DOMAIN raw_comments[k] =>
              /\ k \in DOMAIN raw_comments'
              /\ "sentiment" \in DOMAIN raw_comments'[k]
              /\ raw_comments'[k].sentiment = raw_comments[k].sentiment
              /\ raw_comments'[k].sentiment_score = raw_comments[k].sentiment_score]_vars

\* C17: when process_message failed to write a message's comments, the invocation
\* does not end in success: the message is not deleted from the queue.
C17_FailedIngestionReported ==
    [][(l2.pc = "return" /\ l2'.pc = "idle" /\ ~l2.success) => l2.message \in queue']_vars

\* the invocation of run r has returned after folding, into an aggregate that had
\* comments, rows whose average normalized score is positive
FoldedPositive(r) ==
    /\ run[r].pc = "idle"
    /\ run[r].new_comments # {}
    /\ run[r].existing_count > 0
    /\ FLess(FInt(0), NewAvg(SeqOf(run[r].new_comments)))

\* C18: a fold of rows with a positive average into an aggregate with
\* comment_count > 0 writes an overall_score that is at least the one it read.
C18_NoDropOnPositive ==
    FoldedPositive(1) =>
        scores_table[run[1].video_id].overall_score >= run[1].existing_score

\* such a fold whose weighted average alone would have lowered the score
C18_Witness ==
    /\ FoldedPositive(1)
    /\ scores_table[run[1].video_id].overall_score = run[1].existing_score
    /\ run[1].existing_score = 100
    /\ \E c \in run[1].new_comments : Magnitude(c, "Negative") > 0

\* C19: a run whose read of the aggregate failed does not take the failure for
\* "no aggregate" and replace the stored row by one computed from nothing.
C19_FailedAggregateRead ==
    [][\A r \in Runs :
          (WriteBack(r) /\ run[r].read_error)
              => run[r].video_id \notin DOMAIN scores_table]_vars

\* the step is cycle c storing the token it got
TokenWrite(c) == cyc[c].pc = "update" /\ cyc'[c].pc = "send"

\* C20: a cycle whose read of the stored token failed while a token was stored
\* does not take the failure for Fresh and store another token in its place.
C20_FailedTokenRead ==
    [][\A c \in Cycles :
          (TokenWrite(c) /\ cyc[c].read_error /\ cyc[c].token_before # NoneTok)
              => StoredToken(cyc[c].video_id)' = StoredToken(cyc[c].video_id)]_vars

\* C21: the stored last_updated_at of a video never decreases from one state to
\* the next, whatever the interleaving of the aggregation runs.
C21_CheckpointMonotone ==
    [][\A v \in DOMAIN scores_table :
          scores_table'[v].last_updated_at >= scores_table[v].last_updated_at]_vars

\* every row of the video has been folded into the stored aggregate
AllFolded(v) ==
    /\ v \in DOMAIN scores_table
    /\ \A r \in Runs : run[r].pc = "idle"
    /\ \A k \in VideoKeys(v) : ledger[v][k].n >= 1

\* C22: when pagination cycles of a video overlap, the page fetched twice leaves
\* its rows once in RawCommentsTable and once in the aggregate: with all rows
\* folded, comment_count is the number of rows.
C22_OverlappingCycles ==
    \A v \in Videos :
        AllFolded(v) => scores_table[v].comment_count = Cardinality(VideoKeys(v))

\* the row of key k carries a sentiment_score
HasSentiment(k) == k \in DOMAIN raw_comments /\ "sentiment_score" \in DOMAIN raw_comments[k]

\* the row of key k was folded when it carried a sentiment_score, or run r has
\* queried it with its sentiment_score and is about to fold it
FoldedWithSentiment(v, k) ==
    \/ ledger[v][k].n >= 1 /\ ledger[v][k].enriched
    \/ \E r \in Runs : /\ run[r].pc = "update"
                       /\ run[r].video_id = v
                       /\ \E c \in run[r].new_comments :
                             c.unique_comment_key = k /\ "sentiment_score" \in DOMAIN c

\* C23: every row that gets a sentiment is eventually folded into the aggregate
\* of its video with its sentiment_score.
C23_EnrichedEventuallyFolded ==
    \A v \in Videos : \A k \in VideoPageKeys(v) :
        HasSentiment(k) ~> FoldedWithSentiment(v, k)

\* the videos the records of a stream event belong to
EventVideos(event) ==
    IF "Records" \in DOMAIN event
    THEN {event.Records[i].NewImage.video_id : i \in 1..Len(event.Records)}
    ELSE {event.video_id}

\* the rows of the video that are not folded into its stored aggregate
NotYetFolded(v) == fetch_sentiment_scores(v, StoredMetadata(v).last_updated_at)

\* the invocation of run r returns with this step
L4Returns(r) == run[r].pc \in {"fetch", "update"} /\ run'[r].pc = "idle"

\* C24: when an invocation of lambda4 returns, every video a record of its event
\* belongs to has no row left with processed_at > last_updated_at.
C24_EveryEntityAggregated ==
    [][L4Returns(1) =>
          \A v \in EventVideos(run[1].event) : NotYetFolded(v)' = {}]_vars

=============================================================================
